---- MODULE Spec2Model ----
(***************************************************************************)
(* SkillKit Python client (clients/python/skillkit): the session handle's  *)
(* lifecycle, the request each operation builds, and the way a response is *)
(* turned into a typed record.                                             *)
(*                                                                         *)
(* Library behaviour the client relies on is modelled as the libraries     *)
(* document it: httpx.AsyncClient (aclose marks the client closed, a       *)
(* closed client refuses to send, raise_for_status raises unless the       *)
(* status is 2xx), urllib.parse.quote, and pydantic v2 BaseModel (lax      *)
(* validation, extra keys ignored, instances not frozen by default).       *)
(***************************************************************************)
EXTENDS Integers, Sequences, FiniteSets, TLC

---------------------------------------------------------------------------
(* Bounds of the model *)

\* sessions one client instance may create in a run
MaxSessions == 3
\* tasks that use the client concurrently
NumTasks == 2
\* length of the generated source / skill_id strings
MaxStrLen == 2
\* length of the skills / categories list of a response body
MaxSkills == 2
\* attribute assignments the caller makes on one returned record
MaxAssign == 1

---------------------------------------------------------------------------
(* Python / JSON values: tagged, so that a value of one type is never      *)
(* taken for a value of another.  A dict is a function from keys to        *)
(* values; an absent key is a key outside its DOMAIN.                      *)

PyNone == [t |-> "none", v |-> "None"]
PyStr(s) == [t |-> "str", v |-> s]
PyInt(i) == [t |-> "int", v |-> i]
PyBool(b) == [t |-> "bool", v |-> b]
\* a float, kept in thousandths (0.667 is 667)
PyFloat(m) == [t |-> "float", v |-> m]
PyList(l) == [t |-> "list", v |-> l]
PyDict(d) == [t |-> "dict", v |-> d]

EmptyDict == [k \in {} |-> PyNone]

\* Python truthiness of a value: `if tags:`, `if category:`, `if filters:`
Truthy(x) ==
    CASE x.t = "none" -> FALSE
      [] x.t = "str" -> x.v # <<>>
      [] x.t = "list" -> Len(x.v) > 0
      [] x.t = "dict" -> DOMAIN x.v # {}
      [] x.t = "bool" -> x.v
      [] x.t = "int" -> x.v # 0
      [] OTHER -> TRUE

---------------------------------------------------------------------------
(* Strings are sequences of characters.                                    *)

RECURSIVE Concat(_)
Concat(ss) == IF ss = <<>> THEN <<>> ELSE Head(ss) \o Concat(Tail(ss))

Digit(d) == CASE d = 0 -> "0" [] d = 1 -> "1" [] d = 2 -> "2" [] d = 3 -> "3"
              [] d = 4 -> "4" [] d = 5 -> "5" [] d = 6 -> "6" [] d = 7 -> "7"
              [] d = 8 -> "8" [] d = 9 -> "9"

RECURSIVE Digits(_)
Digits(n) == IF n < 10 THEN <<Digit(n)>> ELSE Digits(n \div 10) \o <<Digit(n % 10)>>

\* str(limit)
str(n) == IF n < 0 THEN <<"-">> \o Digits(0 - n) ELSE Digits(n)

\* the characters urllib.parse.quote never encodes (_ALWAYS_SAFE)
AlwaysSafe ==
    {"a", "b", "c", "d", "e", "f", "g", "h", "i", "j", "k", "l", "m",
     "n", "o", "p", "q", "r", "s", "t", "u", "v", "w", "x", "y", "z",
     "A", "B", "C", "D", "E", "F", "G", "H", "I", "J", "K", "L", "M",
     "N", "O", "P", "Q", "R", "S", "T", "U", "V", "W", "X", "Y", "Z",
     "0", "1", "2", "3", "4", "5", "6", "7", "8", "9", "_", ".", "-", "~"}

\* %XX of the UTF-8 bytes of a character, for the characters of the model
PercentEncoded(c) ==
    CASE c = "/" -> <<"%", "2", "F">>
      [] c = "%" -> <<"%", "2", "5">>
      [] c = " " -> <<"%", "2", "0">>
      [] c = "?" -> <<"%", "3", "F">>
      [] c = "#" -> <<"%", "2", "3">>

quote_slash_safe(s, safe) ==
    Concat([i \in 1..Len(s) |->
              IF s[i] \in AlwaysSafe \cup safe \cup {"/"} THEN <<s[i]>> ELSE PercentEncoded(s[i])])

\* urllib.parse.quote(s, safe=...)
quote(s, safe) ==
    Concat([i \in 1..Len(s) |->
              IF s[i] \in AlwaysSafe \cup safe THEN <<s[i]>> ELSE PercentEncoded(s[i])])

---------------------------------------------------------------------------
(* Requests.  A request is what the operation hands to the session:        *)
(* method, path, query parameters and JSON body.                           *)

\* d[k] = v on a dict
DictSet(d, k, v) == [x \in DOMAIN d \cup {k} |-> IF x = k THEN v ELSE d[x]]

Request(m, p, q, j) == [method |-> m, path |-> p, params |-> q, json |-> j]

\* limit: int = 20
DefaultLimit == 20

HealthPath == <<"/", "h", "e", "a", "l", "t", "h">>
SearchPath == <<"/", "s", "e", "a", "r", "c", "h">>
SkillsPath == <<"/", "s", "k", "i", "l", "l", "s">>
TrendingPath == <<"/", "t", "r", "e", "n", "d", "i", "n", "g">>
CategoriesPath == <<"/", "c", "a", "t", "e", "g", "o", "r", "i", "e", "s">>
CacheStatsPath == <<"/", "c", "a", "c", "h", "e", "/", "s", "t", "a", "t", "s">>

health_request(a) == Request("GET", HealthPath, EmptyDict, PyNone)

search_request(a) ==
    LET params0 == [k \in {"q", "limit"} |->
                      IF k = "q" THEN a.query ELSE PyStr(str(a.limit.v))]
        params1 == IF Truthy(a.include_content)
                     THEN DictSet(params0, "include_content", PyStr(<<"t", "r", "u", "e">>))
                     ELSE params0
    IN  Request("GET", SearchPath, params1, PyNone)

\* search_with_filters with `is not None` tests in place of truthiness, and
\* the filters object attached even when it is empty
search_with_filters_request_not_none(a) ==
    LET body == [k \in {"query", "limit", "include_content"} |-> a[k]]
        f0 == EmptyDict
        f1 == IF a.tags.t # "none" THEN DictSet(f0, "tags", a.tags) ELSE f0
        f2 == IF a.category.t # "none" THEN DictSet(f1, "category", a.category) ELSE f1
        f3 == IF a.source.t # "none" THEN DictSet(f2, "source", a.source) ELSE f2
    IN  Request("POST", SearchPath, EmptyDict, PyDict(DictSet(body, "filters", PyDict(f3))))

search_with_filters_request(a) ==
    LET body == [k \in {"query", "limit", "include_content"} |-> a[k]]
        f0 == EmptyDict
        f1 == IF Truthy(a.tags) THEN DictSet(f0, "tags", a.tags) ELSE f0
        f2 == IF Truthy(a.category) THEN DictSet(f1, "category", a.category) ELSE f1
        f3 == IF Truthy(a.source) THEN DictSet(f2, "source", a.source) ELSE f2
        body1 == IF Truthy(PyDict(f3)) THEN DictSet(body, "filters", PyDict(f3)) ELSE body
    IN  Request("POST", SearchPath, EmptyDict, PyDict(body1))

get_skill_request(a) ==
    Request("GET",
            SkillsPath \o <<"/">> \o quote(a.source.v, {}) \o <<"/">> \o quote(a.skill_id.v, {}),
            EmptyDict, PyNone)

trending_request(a) ==
    Request("GET", TrendingPath, [k \in {"limit"} |-> PyStr(str(a.limit.v))], PyNone)

categories_request(a) == Request("GET", CategoriesPath, EmptyDict, PyNone)

cache_stats_request(a) == Request("GET", CacheStatsPath, EmptyDict, PyNone)

Ops == {"health", "search", "search_with_filters", "get_skill",
        "trending", "categories", "cache_stats"}

\* the request operation o builds from its arguments a
BuildRequest(o, a) ==
    CASE o = "health" -> health_request(a)
      [] o = "search" -> search_request(a)
      [] o = "search_with_filters" -> search_with_filters_request(a)
      [] o = "get_skill" -> get_skill_request(a)
      [] o = "trending" -> trending_request(a)
      [] o = "categories" -> categories_request(a)
      [] o = "cache_stats" -> cache_stats_request(a)

---------------------------------------------------------------------------
(* Records (models.py).  A schema maps each field to its type, whether it  *)
(* is required, and its default.                                           *)

Field(ty, req, dflt) == [type |-> ty, required |-> req, default |-> dflt]

SkillSchema ==
    [f \in {"name", "description", "source", "repo", "tags", "category",
            "content", "stars", "installs"} |->
        CASE f \in {"name", "source"} -> Field("str", TRUE, PyNone)
          [] f \in {"description", "repo", "category", "content"} -> Field("opt_str", FALSE, PyNone)
          [] f = "tags" -> Field("opt_list_str", FALSE, PyNone)
          [] f \in {"stars", "installs"} -> Field("opt_int", FALSE, PyNone)]

SearchResponseSchema ==
    [f \in {"skills", "total", "query", "limit"} |->
        CASE f = "skills" -> Field("list_Skill", TRUE, PyNone)
          [] f = "query" -> Field("str", TRUE, PyNone)
          [] OTHER -> Field("int", TRUE, PyNone)]

HealthResponseSchema ==
    [f \in {"status", "version", "skill_count", "uptime"} |->
        CASE f \in {"status", "version"} -> Field("str", TRUE, PyNone)
          [] OTHER -> Field("int", FALSE, PyInt(0))]

CacheStatsSchema ==
    [f \in {"hits", "misses", "size", "max_size", "hit_rate"} |->
        CASE f \in {"hits", "misses", "size"} -> Field("int", TRUE, PyNone)
          [] f = "max_size" -> Field("int", FALSE, PyInt(0))
          [] f = "hit_rate" -> Field("float", FALSE, PyFloat(0))]

CategorySchema ==
    [f \in {"name", "count"} |->
        IF f = "name" THEN Field("str", TRUE, PyNone) ELSE Field("int", TRUE, PyNone)]

CategoriesResponseSchema ==
    [f \in {"categories", "total"} |->
        IF f = "categories" THEN Field("list_Category", TRUE, PyNone) ELSE Field("int", TRUE, PyNone)]

TrendingResponseSchema ==
    [f \in {"skills", "limit"} |->
        IF f = "skills" THEN Field("list_Skill", TRUE, PyNone) ELSE Field("int", TRUE, PyNone)]

Schemas ==
    [c \in {"Skill", "SearchResponse", "HealthResponse", "CacheStats", "Category",
            "CategoriesResponse", "TrendingResponse"} |->
        CASE c = "Skill" -> SkillSchema
          [] c = "SearchResponse" -> SearchResponseSchema
          [] c = "HealthResponse" -> HealthResponseSchema
          [] c = "CacheStats" -> CacheStatsSchema
          [] c = "Category" -> CategorySchema
          [] c = "CategoriesResponse" -> CategoriesResponseSchema
          [] c = "TrendingResponse" -> TrendingResponseSchema]

Valid(x) == [ok |-> TRUE, v |-> x]
Invalid == [ok |-> FALSE, v |-> PyNone]

\* int(s) for the strings of the model that are numerals
NumeralValue == ("5" :> 5 @@ "42" :> 42)

\* pydantic's validation of one value against a field type (lax mode: an
\* int field takes a bool, a whole float or a numeral string and converts
\* it, a float field takes an int; a str field takes nothing but a str)
Coerce(ty, x) ==
    CASE ty = "str" -> IF x.t = "str" THEN Valid(x) ELSE Invalid
      [] ty = "int" ->
            CASE x.t = "int" -> Valid(x)
              [] x.t = "bool" -> Valid(PyInt(IF x.v THEN 1 ELSE 0))
              [] x.t = "float" -> IF x.v % 1000 = 0 THEN Valid(PyInt(x.v \div 1000)) ELSE Invalid
              [] x.t = "str" ->
                    IF x.v \in DOMAIN NumeralValue THEN Valid(PyInt(NumeralValue[x.v])) ELSE Invalid
              [] OTHER -> Invalid
      [] ty = "float" ->
            CASE x.t = "float" -> Valid(x)
              [] x.t = "int" -> Valid(PyFloat(1000 * x.v))
              [] x.t = "bool" -> Valid(PyFloat(IF x.v THEN 1000 ELSE 0))
              [] x.t = "str" ->
                    IF x.v \in DOMAIN NumeralValue
                      THEN Valid(PyFloat(1000 * NumeralValue[x.v])) ELSE Invalid
              [] OTHER -> Invalid
      [] ty = "opt_str" -> IF x.t \in {"none", "str"} THEN Valid(x) ELSE Invalid
      [] ty = "opt_int" ->
            CASE x.t \in {"none", "int"} -> Valid(x)
              [] x.t = "bool" -> Valid(PyInt(IF x.v THEN 1 ELSE 0))
              [] x.t = "float" -> IF x.v % 1000 = 0 THEN Valid(PyInt(x.v \div 1000)) ELSE Invalid
              [] x.t = "str" ->
                    IF x.v \in DOMAIN NumeralValue THEN Valid(PyInt(NumeralValue[x.v])) ELSE Invalid
              [] OTHER -> Invalid
      [] ty = "opt_list_str" ->
            CASE x.t = "none" -> Valid(x)
              [] x.t = "list" ->
                    IF \A i \in 1..Len(x.v) : x.v[i].t = "str" THEN Valid(x) ELSE Invalid
              [] OTHER -> Invalid
      [] ty = "list_Skill" ->
            IF x.t = "list" /\ \A i \in 1..Len(x.v) : x.v[i].t = "Skill"
              THEN Valid(x) ELSE Invalid
      [] ty = "list_Category" ->
            IF x.t = "list" /\ \A i \in 1..Len(x.v) : x.v[i].t = "Category"
              THEN Valid(x) ELSE Invalid

\* an instance of record class c
Instance(c, fields) == [t |-> c, v |-> fields]

\* what a call gives its caller: a value, or an exception and no value
Returned(x) == [outcome |-> "ok", result |-> x]
NoResult == [t |-> "noresult", v |-> "-"]
Raised(e) == [outcome |-> e, result |-> NoResult]

\* BaseModel.__init__(**kwargs) of class c: every field validated, keys
\* that are no field ignored, ValidationError if any field fails
Construct(c, kwargs) ==
    LET schema == Schemas[c]
        one(f) == IF f \in DOMAIN kwargs
                    THEN Coerce(schema[f].type, kwargs[f])
                    ELSE IF schema[f].required THEN Invalid ELSE Valid(schema[f].default)
    IN  IF \A f \in DOMAIN schema : one(f).ok
          THEN Returned(Instance(c, [f \in DOMAIN schema |-> one(f).v]))
          ELSE Raised("ValidationError")

---------------------------------------------------------------------------
(* Responses.  A response is a status and a body; the body is the value    *)
(* response.json() gives, or a text that is no JSON.                       *)

NotJson == [t |-> "notjson", v |-> "<html>"]

\* data.get(k, dflt)
Get(data, k, dflt) == IF k \in DOMAIN data THEN data[k] ELSE dflt

\* response.raise_for_status() with 3xx let through, as an httpx that
\* raises for client and server errors only
raise_for_status_4xx_5xx(resp) == resp.status >= 400

\* response.raise_for_status(): TRUE when it raises HTTPStatusError,
\* which httpx does unless the status is a success (200..299)
raise_for_status(resp) == ~(200 <= resp.status /\ resp.status <= 299)

\* a list comprehension that leaves out the elements that do not validate
RECURSIVE ConstructEach_skipping(_, _)
ConstructEach_skipping(c, items) ==
    IF Len(items) = 0 THEN Returned(<<>>)
    ELSE LET m == IF Head(items).t = "dict"
                    THEN Construct(c, Head(items).v) ELSE Raised("TypeError")
             r == ConstructEach_skipping(c, Tail(items))
         IN  IF m.outcome # "ok" THEN r ELSE Returned(<<m.result>> \o r.result)

\* [C(**s) for s in items]: the elements in order, the first failure raised
RECURSIVE ConstructEach(_, _)
ConstructEach(c, items) ==
    IF Len(items) = 0 THEN Returned(<<>>)
    ELSE IF Head(items).t # "dict" THEN Raised("TypeError")
    ELSE LET m == Construct(c, Head(items).v)
         IN  IF m.outcome # "ok" THEN m
             ELSE LET r == ConstructEach(c, Tail(items))
                  IN  IF r.outcome # "ok" THEN r ELSE Returned(<<m.result>> \o r.result)

health_return(data) ==
    IF {"status", "version"} \ DOMAIN data # {} THEN Raised("KeyError")
    ELSE Construct("HealthResponse",
                   [f \in {"status", "version", "skill_count", "uptime"} |->
                      CASE f = "status" -> data["status"]
                        [] f = "version" -> data["version"]
                        [] f = "skill_count" -> Get(data, "skillCount", PyInt(0))
                        [] f = "uptime" -> Get(data, "uptime", PyInt(0))])

\* SearchResponse(skills=[Skill(**s) for s in data["skills"]], total=..., ...):
\* the keyword arguments are evaluated in order, the list first
search_return(data) ==
    IF "skills" \notin DOMAIN data THEN Raised("KeyError")
    ELSE IF data["skills"].t # "list" THEN Raised("TypeError")
    ELSE LET skills == ConstructEach("Skill", data["skills"].v)
         IN  IF skills.outcome # "ok" THEN skills
             ELSE IF {"total", "query", "limit"} \ DOMAIN data # {} THEN Raised("KeyError")
             ELSE Construct("SearchResponse",
                            [f \in {"skills", "total", "query", "limit"} |->
                               IF f = "skills" THEN PyList(skills.result) ELSE data[f]])

search_with_filters_return(data) ==
    IF "skills" \notin DOMAIN data THEN Raised("KeyError")
    ELSE IF data["skills"].t # "list" THEN Raised("TypeError")
    ELSE LET skills == ConstructEach("Skill", data["skills"].v)
         IN  IF skills.outcome # "ok" THEN skills
             ELSE IF {"total", "query", "limit"} \ DOMAIN data # {} THEN Raised("KeyError")
             ELSE Construct("SearchResponse",
                            [f \in {"skills", "total", "query", "limit"} |->
                               IF f = "skills" THEN PyList(skills.result) ELSE data[f]])

get_skill_return(data) == Construct("Skill", data)

trending_return(data) ==
    IF "skills" \notin DOMAIN data THEN Raised("KeyError")
    ELSE IF data["skills"].t # "list" THEN Raised("TypeError")
    ELSE LET skills == ConstructEach("Skill", data["skills"].v)
         IN  IF skills.outcome # "ok" THEN skills ELSE Returned(PyList(skills.result))

categories_return(data) ==
    IF "categories" \notin DOMAIN data THEN Raised("KeyError")
    ELSE IF data["categories"].t # "list" THEN Raised("TypeError")
    ELSE LET cats == ConstructEach("Category", data["categories"].v)
         IN  IF cats.outcome # "ok" THEN cats ELSE Returned(PyList(cats.result))

cache_stats_return(data) ==
    IF {"hits", "misses", "size"} \ DOMAIN data # {} THEN Raised("KeyError")
    ELSE Construct("CacheStats",
                   [f \in {"hits", "misses", "size", "max_size", "hit_rate"} |->
                      CASE f = "max_size" -> Get(data, "maxSize", PyInt(0))
                        [] f = "hit_rate" -> Get(data, "hitRate", PyFloat(0))
                        [] OTHER -> data[f]])

\* what operation o does with the response once the await resumes:
\* raise_for_status(), then json(), then the record is built
Receive(o, resp) ==
    IF raise_for_status(resp) THEN Raised("HTTPStatusError")
    ELSE IF resp.body.t = "notjson" THEN Raised("JSONDecodeError")
    ELSE IF resp.body.t # "dict" THEN Raised("TypeError")
    ELSE LET data == resp.body.v
         IN  CASE o = "health" -> health_return(data)
               [] o = "search" -> search_return(data)
               [] o = "search_with_filters" -> search_with_filters_return(data)
               [] o = "get_skill" -> get_skill_return(data)
               [] o = "trending" -> trending_return(data)
               [] o = "categories" -> categories_return(data)
               [] o = "cache_stats" -> cache_stats_return(data)

---------------------------------------------------------------------------
(* Inputs: the arguments a caller passes and the responses a server sends. *)

\* all sequences over S of length at most n
SeqsUpTo(S, n) == UNION {[1..k -> S] : k \in 0..n}

\* the dictionaries that give each key k one of choices[k]; Absent leaves
\* the key out
Absent == [t |-> "absent", v |-> "-"]
RECURSIVE DictsOver(_, _)
DictsOver(keys, choices) ==
    IF keys = {} THEN {EmptyDict}
    ELSE LET k == CHOOSE x \in keys : TRUE
         IN  {IF c.t = "absent" THEN d ELSE DictSet(d, k, c) :
                d \in DictsOver(keys \ {k}, choices), c \in choices[k]}
DictsOf(choices) == DictsOver(DOMAIN choices, choices)

Alphabet == {"a", "/", "%"}
Strings == SeqsUpTo(Alphabet, MaxStrLen)

OwnerRepo == <<"o", "w", "n", "e", "r", "/", "r", "e", "p", "o">>
ReactPerf == <<"r", "e", "a", "c", "t", "-", "p", "e", "r", "f">>
React == <<"r", "e", "a", "c", "t">>
Auth == <<"a", "u", "t", "h">>
NextJs == <<"n", "e", "x", "t", "j", "s">>
Web == <<"w", "e", "b">>

Limits == {PyInt(DefaultLimit), PyInt(5)}

\* the argument tuples operation o is called with
Args(o) ==
    CASE o = "search" ->
            [query : {PyStr(React)}, limit : Limits, include_content : {PyBool(FALSE), PyBool(TRUE)}]
      [] o = "search_with_filters" ->
            [query : {PyStr(Auth)}, limit : {PyInt(DefaultLimit)},
             include_content : {PyBool(FALSE)},
             tags : {PyNone, PyList(<<>>), PyList(<<PyStr(NextJs)>>)},
             category : {PyNone, PyStr(<<>>), PyStr(Web)},
             source : {PyNone, PyStr(<<>>), PyStr(OwnerRepo)}]
      [] o = "get_skill" ->
            [source : {PyStr(x) : x \in Strings \cup {OwnerRepo}},
             skill_id : {PyStr(x) : x \in Strings \cup {ReactPerf}}]
      [] o = "trending" -> [limit : Limits]
      [] OTHER -> {EmptyDict}

\* the calls of tests/test_client.py
TestArgs(o) ==
    CASE o = "search" ->
            {[query |-> PyStr(React), limit |-> PyInt(DefaultLimit), include_content |-> PyBool(FALSE)]}
      [] o = "search_with_filters" ->
            {[query |-> PyStr(Auth), limit |-> PyInt(DefaultLimit),
              include_content |-> PyBool(FALSE), tags |-> PyList(<<PyStr(NextJs)>>),
              category |-> PyNone, source |-> PyNone]}
      [] o = "get_skill" -> {[source |-> PyStr(OwnerRepo), skill_id |-> PyStr(ReactPerf)]}
      [] o = "trending" -> {[limit |-> PyInt(DefaultLimit)]}
      [] OTHER -> {EmptyDict}

Statuses == {199, 200, 299, 300, 404, 500}

\* elements of a skills list: two well-formed ones (the second with
\* optional fields and a key that is no field), malformed ones, and one
\* whose stars is a JSON string that is a numeral
GoodSkills ==
    {PyDict("name" :> PyStr("a") @@ "source" :> PyStr("x/y")),
     PyDict("name" :> PyStr("b") @@ "source" :> PyStr("o/r") @@ "stars" :> PyInt(3)
            @@ "tags" :> PyList(<<PyStr("t")>>) @@ "homepage" :> PyStr("h"))}
BadSkills ==
    {PyDict("name" :> PyStr("c")),
     PyDict("source" :> PyStr("x/y")),
     PyDict("name" :> PyInt(7) @@ "source" :> PyStr("x/y")),
     PyDict("name" :> PyStr("d") @@ "source" :> PyStr("x/y") @@ "stars" :> PyStr("many"))}
LaxSkills ==
    {PyDict("name" :> PyStr("e") @@ "source" :> PyStr("x/y") @@ "stars" :> PyStr("5"))}
SkillElems == GoodSkills \cup BadSkills \cup LaxSkills

CategoryElems ==
    {PyDict("name" :> PyStr("react") @@ "count" :> PyInt(5)),
     PyDict("name" :> PyStr("vue")),
     PyDict("name" :> PyStr("go") @@ "count" :> PyStr("few"))}

TestSkill ==
    PyDict("name" :> PyStr("react-perf") @@ "description" :> PyStr("React performance")
           @@ "source" :> PyStr("owner/repo"))

\* the bodies a server may answer operation o with
Bodies(o) ==
    {NotJson} \cup
    CASE o = "health" ->
            {PyDict(d) : d \in DictsOf(
                [k \in {"status", "version", "skillCount", "uptime"} |->
                   CASE k = "status" -> {Absent, PyStr("ok"), PyInt(1)}
                     [] k = "version" -> {Absent, PyStr("1.11.0")}
                     [] k = "skillCount" -> {Absent, PyInt(100), PyNone}
                     [] k = "uptime" -> {Absent, PyInt(60)}])}
      [] o \in {"search", "search_with_filters"} ->
            {PyDict(d) : d \in DictsOf(
                [k \in {"skills", "total", "query", "limit"} |->
                   CASE k = "skills" -> {Absent} \cup {PyList(l) : l \in SeqsUpTo(SkillElems, MaxSkills)}
                     [] k = "total" -> {Absent, PyInt(1), PyStr("one")}
                     [] k = "query" -> {PyStr("react")}
                     [] k = "limit" -> {PyInt(20)}])}
      [] o = "get_skill" -> SkillElems \cup {TestSkill, PyList(<<>>)}
      [] o = "trending" ->
            {PyDict(d) : d \in DictsOf(
                [k \in {"skills", "limit"} |->
                   CASE k = "skills" -> {Absent} \cup {PyList(l) : l \in SeqsUpTo(SkillElems, MaxSkills)}
                     [] k = "limit" -> {Absent, PyInt(20)}])}
      [] o = "categories" ->
            {PyDict(d) : d \in DictsOf(
                [k \in {"categories", "total"} |->
                   CASE k = "categories" -> {Absent} \cup {PyList(l) : l \in SeqsUpTo(CategoryElems, MaxSkills)}
                     [] k = "total" -> {Absent, PyInt(1)}])}
      [] o = "cache_stats" ->
            {PyDict(d) : d \in DictsOf(
                [k \in {"hits", "misses", "size", "maxSize", "hitRate"} |->
                   CASE k = "hits" -> {Absent, PyInt(10)}
                     [] k = "misses" -> {PyInt(5)}
                     [] k = "size" -> {PyInt(8), PyStr("big")}
                     [] k = "maxSize" -> {Absent, PyInt(500)}
                     [] k = "hitRate" -> {Absent, PyFloat(667), PyInt(1), PyStr("high")}])}

Responses(o) == IF o \in Ops THEN [status : Statuses, body : Bodies(o)] ELSE {}

\* the mocked bodies of tests/test_client.py
TestBody(o) ==
    CASE o = "health" ->
            PyDict("status" :> PyStr("ok") @@ "version" :> PyStr("1.11.0")
                   @@ "skillCount" :> PyInt(100) @@ "uptime" :> PyInt(60))
      [] o = "search" ->
            PyDict("skills" :> PyList(<<PyDict("name" :> PyStr("react-perf") @@ "source" :> PyStr("owner/repo"))>>)
                   @@ "total" :> PyInt(1) @@ "query" :> PyStr("react") @@ "limit" :> PyInt(20))
      [] o = "search_with_filters" ->
            PyDict("skills" :> PyList(<<PyDict("name" :> PyStr("nextjs-auth") @@ "source" :> PyStr("other/repo"))>>)
                   @@ "total" :> PyInt(1) @@ "query" :> PyStr("auth") @@ "limit" :> PyInt(20))
      [] o = "get_skill" -> TestSkill
      [] o = "trending" ->
            PyDict("skills" :> PyList(<<PyDict("name" :> PyStr("a") @@ "source" :> PyStr("x/y"))>>)
                   @@ "limit" :> PyInt(20))
      [] o = "categories" ->
            PyDict("categories" :> PyList(<<PyDict("name" :> PyStr("react") @@ "count" :> PyInt(5))>>)
                   @@ "total" :> PyInt(1))
      [] o = "cache_stats" ->
            PyDict("hits" :> PyInt(10) @@ "misses" :> PyInt(5) @@ "size" :> PyInt(8)
                   @@ "maxSize" :> PyInt(500) @@ "hitRate" :> PyFloat(667))

\* the answers of the mocked server, and the same body under an error status
TestResponses(o) == IF o \in Ops THEN [status : {200, 404}, body : {TestBody(o)}] ELSE {}

---------------------------------------------------------------------------
(* The client and its callers.                                             *)

Tasks == 1..NumTasks
Sessions == 1..MaxSessions
\* self._client = None
NoSession == 0
NoResponse == [status |-> 0, body |-> PyNone]

VARIABLES
    handle,         \* self._client: a session, or NoSession
    sessions,       \* each httpx.AsyncClient this client made: unborn, open, closed
    scope,          \* `async with` blocks entered and not yet left
    pc,             \* where each task stands: idle, or suspended at an await
    op,             \* the operation each task called last
    args,           \* the arguments of the call a task is suspended in
    request,        \* the request a suspended call has sent
    client,         \* the local `client` of a task's latest API call
    closing,        \* the session a task's latest close() found in the handle
    exiting,        \* the session a task's latest __aexit__ found in the handle
    response,       \* the response a task's latest call received
    outcome,        \* how the latest call ended: ok, or the exception raised
    result,         \* the value the latest call returned to its caller
    assigns,        \* attribute assignments the caller made on that value
    event,          \* the step taken last, and the task that took it
    lastUsed,       \* the session of the most recent API call
    disposedSince   \* close() or scope exit has run since that call

vars == <<handle, sessions, scope, pc, op, args, request, client, closing, exiting, response,
          outcome, result, assigns, event, lastUsed, disposedSince>>

Created == Cardinality({i \in Sessions : sessions[i] # "unborn"})
Open == {i \in Sessions : sessions[i] = "open"}

Event(a, t) == [act |-> a, task |-> t]

Init ==
    /\ handle = NoSession
    /\ sessions = [i \in Sessions |-> "unborn"]
    /\ scope = 0
    /\ pc = [t \in Tasks |-> "idle"]
    /\ op = [t \in Tasks |-> "none"]
    /\ args = [t \in Tasks |-> PyNone]
    /\ request = [t \in Tasks |-> PyNone]
    /\ client = [t \in Tasks |-> NoSession]
    /\ closing = [t \in Tasks |-> NoSession]
    /\ exiting = [t \in Tasks |-> NoSession]
    /\ response = [t \in Tasks |-> NoResponse]
    /\ outcome = [t \in Tasks |-> "none"]
    /\ result = [t \in Tasks |-> NoResult]
    /\ assigns = [t \in Tasks |-> 0]
    /\ event = Event("init", 0)
    /\ lastUsed = NoSession
    /\ disposedSince = FALSE

\* httpx.AsyncClient(base_url=..., timeout=...): a session never seen before
NewSession == Created + 1

\* _get_client that never stores the session it makes
get_client_not_stored ==
    IF handle = NoSession
      THEN [client |-> NewSession, handle |-> NoSession,
            sessions |-> [i \in Sessions |-> IF i = NewSession THEN "open" ELSE sessions[i]]]
      ELSE [client |-> handle, handle |-> handle, sessions |-> sessions]

\* _get_client(): the session it returns, and the handle and sessions after it
get_client ==
    IF handle = NoSession
      THEN [client |-> NewSession, handle |-> NewSession,
            sessions |-> [i \in Sessions |-> IF i = NewSession THEN "open" ELSE sessions[i]]]
      ELSE [client |-> handle, handle |-> handle, sessions |-> sessions]

\* An API operation o(a), from its call to its first await: _get_client(),
\* the request built and handed to the session.  A closed session refuses
\* to send (RuntimeError) and the call ends there.
ApiCall(t, o, a) ==
    /\ pc[t] = "idle"
    /\ LET g == get_client
       IN  /\ g.client \in Sessions
           /\ handle' = g.handle
           /\ sessions' = g.sessions
           /\ client' = [client EXCEPT ![t] = g.client]
           /\ lastUsed' = g.client
           /\ IF g.sessions[g.client] = "closed"
                THEN /\ pc' = pc
                     /\ args' = args
                     /\ request' = request
                     /\ outcome' = [outcome EXCEPT ![t] = "RuntimeError"]
                ELSE /\ pc' = [pc EXCEPT ![t] = "awaiting"]
                     /\ args' = [args EXCEPT ![t] = a]
                     /\ request' = [request EXCEPT ![t] = BuildRequest(o, a)]
                     /\ outcome' = [outcome EXCEPT ![t] = "pending"]
    /\ op' = [op EXCEPT ![t] = o]
    /\ response' = [response EXCEPT ![t] = NoResponse]
    /\ result' = [result EXCEPT ![t] = NoResult]
    /\ assigns' = [assigns EXCEPT ![t] = 0]
    /\ disposedSince' = FALSE
    /\ event' = Event("call", t)
    /\ UNCHANGED <<scope, closing, exiting>>

\* The await resumes with a response: raise_for_status(), json(), the record.
ApiReturn(t, resp) ==
    /\ pc[t] = "awaiting"
    /\ LET r == Receive(op[t], resp)
       IN  /\ outcome' = [outcome EXCEPT ![t] = r.outcome]
           /\ result' = [result EXCEPT ![t] = r.result]
    /\ response' = [response EXCEPT ![t] = resp]
    /\ pc' = [pc EXCEPT ![t] = "idle"]
    /\ args' = [args EXCEPT ![t] = PyNone]
    /\ request' = [request EXCEPT ![t] = PyNone]
    /\ event' = Event("return", t)
    /\ UNCHANGED <<handle, sessions, scope, op, client, closing, exiting, assigns, lastUsed, disposedSince>>

\* The await raises instead: timeout, connection refused, DNS.
ApiTransportError(t) ==
    /\ pc[t] = "awaiting"
    /\ outcome' = [outcome EXCEPT ![t] = "TransportError"]
    /\ pc' = [pc EXCEPT ![t] = "idle"]
    /\ args' = [args EXCEPT ![t] = PyNone]
    /\ request' = [request EXCEPT ![t] = PyNone]
    /\ event' = Event("return", t)
    /\ UNCHANGED <<handle, sessions, scope, op, client, closing, exiting, response, result, assigns,
                   lastUsed, disposedSince>>

\* __aenter__: a new session is put in the handle, whatever was there
aenter(t) ==
    /\ pc[t] = "idle"
    /\ NewSession \in Sessions
    /\ handle' = NewSession
    /\ sessions' = [sessions EXCEPT ![NewSession] = "open"]
    /\ scope' = scope + 1
    /\ op' = [op EXCEPT ![t] = "aenter"]
    /\ event' = Event("aenter", t)
    /\ UNCHANGED <<pc, args, request, client, closing, exiting, response, outcome, result, assigns,
                   lastUsed, disposedSince>>

\* __aexit__ that clears the handle and leaves the session open
aexit_no_aclose(t) ==
    /\ pc[t] = "idle"
    /\ scope > 0
    /\ scope' = scope - 1
    /\ op' = [op EXCEPT ![t] = "aexit"]
    /\ exiting' = [exiting EXCEPT ![t] = handle]
    /\ disposedSince' = TRUE
    /\ handle' = NoSession
    /\ event' = Event("aexit_return", t)
    /\ UNCHANGED <<closing, sessions, pc, args, request, client, response, outcome, result, assigns, lastUsed>>

\* __aexit__, to its await: aclose() marks the session closed and suspends;
\* with no session in the handle it returns at once
aexit(t) ==
    /\ pc[t] = "idle"
    /\ scope > 0
    /\ scope' = scope - 1
    /\ op' = [op EXCEPT ![t] = "aexit"]
    /\ exiting' = [exiting EXCEPT ![t] = handle]
    /\ disposedSince' = TRUE
    /\ IF handle # NoSession
         THEN /\ sessions' = [sessions EXCEPT ![handle] = "closed"]
              /\ pc' = [pc EXCEPT ![t] = "exiting"]
              /\ event' = Event("aexit_await", t)
         ELSE /\ UNCHANGED <<sessions, pc>>
              /\ event' = Event("aexit_return", t)
    /\ UNCHANGED <<closing, handle, args, request, client, response, outcome, result, assigns, lastUsed>>

\* __aexit__, after its await: self._client = None
aexit_resume(t) ==
    /\ pc[t] = "exiting"
    /\ handle' = NoSession
    /\ pc' = [pc EXCEPT ![t] = "idle"]
    /\ event' = Event("aexit_return", t)
    /\ UNCHANGED <<sessions, scope, op, args, request, client, closing, exiting, response, outcome,
                   result, assigns, lastUsed, disposedSince>>

\* close(), to its await
close(t) ==
    /\ pc[t] = "idle"
    /\ op' = [op EXCEPT ![t] = "close"]
    /\ closing' = [closing EXCEPT ![t] = handle]
    /\ disposedSince' = TRUE
    /\ IF handle # NoSession
         THEN /\ sessions' = [sessions EXCEPT ![handle] = "closed"]
              /\ pc' = [pc EXCEPT ![t] = "closing"]
              /\ event' = Event("close_await", t)
         ELSE /\ UNCHANGED <<sessions, pc>>
              /\ event' = Event("close_return", t)
    /\ UNCHANGED <<exiting, handle, scope, args, request, client, response, outcome, result, assigns, lastUsed>>

\* close() that forgets self._client = None
close_resume_handle_kept(t) ==
    /\ pc[t] = "closing"
    /\ pc' = [pc EXCEPT ![t] = "idle"]
    /\ event' = Event("close_return", t)
    /\ UNCHANGED <<handle, sessions, scope, op, args, request, client, closing, exiting, response, outcome,
                   result, assigns, lastUsed, disposedSince>>

\* close(), after its await: self._client = None
close_resume(t) ==
    /\ pc[t] = "closing"
    /\ handle' = NoSession
    /\ pc' = [pc EXCEPT ![t] = "idle"]
    /\ event' = Event("close_return", t)
    /\ UNCHANGED <<sessions, scope, op, args, request, client, closing, exiting, response, outcome,
                   result, assigns, lastUsed, disposedSince>>

\* the record instances reachable from a returned value: 0 is the value
\* itself, i > 0 the i-th element of a returned list
Targets(x) ==
    IF x.t = "list" THEN 1..Len(x.v)
    ELSE IF x.t \in DOMAIN Schemas THEN {0} ELSE {}

\* The caller assigns an attribute of a record it was given (x.f = v).
\* The record classes set no model_config, so BaseModel.__setattr__ stores
\* the value: the field must exist, the value is not validated.
SetAttr(t, i, f, v) ==
    /\ pc[t] = "idle"
    /\ outcome[t] = "ok"
    /\ assigns[t] < MaxAssign
    /\ i \in Targets(result[t])
    /\ IF i = 0
         THEN /\ f \in DOMAIN result[t].v
              /\ result' = [result EXCEPT ![t].v[f] = v]
         ELSE /\ f \in DOMAIN result[t].v[i].v
              /\ result' = [result EXCEPT ![t].v[i].v[f] = v]
    /\ assigns' = [assigns EXCEPT ![t] = @ + 1]
    /\ event' = Event("setattr", t)
    /\ UNCHANGED <<handle, sessions, scope, pc, op, args, request, client, closing, exiting, response,
                   outcome, lastUsed, disposedSince>>

---------------------------------------------------------------------------
(* Specifications *)

\* the caller of the sequential specifications
Main == CHOOSE t \in Tasks : \A u \in Tasks : t <= u
FieldNames == UNION {DOMAIN Schemas[c] : c \in DOMAIN Schemas}

\* One caller that awaits each operation before the next: API calls as the
\* tests make them, scopes, and close().
Next ==
    \/ \E o \in Ops : \E a \in TestArgs(o) : ApiCall(Main, o, a)
    \/ \E resp \in TestResponses(op[Main]) : ApiReturn(Main, resp)
    \/ ApiTransportError(Main)
    \/ aenter(Main)
    \/ aexit(Main)
    \/ aexit_resume(Main)
    \/ close(Main)
    \/ close_resume(Main)

Spec == Init /\ [][Next]_vars

\* Several tasks that call API operations on one client, interleaved at
\* their awaits; no scope and no close().
NextConcurrent ==
    \/ \E t \in Tasks : \E o \in Ops : \E a \in TestArgs(o) : ApiCall(t, o, a)
    \/ \E t \in Tasks : \E resp \in TestResponses(op[t]) : ApiReturn(t, resp)
    \/ \E t \in Tasks : ApiTransportError(t)

SpecConcurrent == Init /\ [][NextConcurrent]_vars

\* One caller that makes one call on a new client, with every argument
\* tuple and every response of the model, and then assigns to what it is
\* given.
NextCall ==
    \/ op[Main] = "none" /\ \E o \in Ops : \E a \in Args(o) : ApiCall(Main, o, a)
    \/ pc[Main] = "awaiting" /\ \E resp \in Responses(op[Main]) : ApiReturn(Main, resp)
    \/ ApiTransportError(Main)
    \/ \E i \in 0..MaxSkills : \E f \in FieldNames : SetAttr(Main, i, f, PyStr("changed"))

SpecCall == Init /\ [][NextCall]_vars

---------------------------------------------------------------------------
(* Session lifecycle: C1, C2, C3, C4 (Spec) and C10 (SpecConcurrent)       *)

\* C1: after any sequence of client operations, at most one session made
\* by this client is open (created and not yet closed).
C1_AtMostOneOpenSession == Cardinality(Open) <= 1

\* C2: whenever __aexit__ returns, the handle is empty and the session the
\* client held when __aexit__ was called has been closed, whatever API
\* calls or close() calls ran inside the scope.
C2_ClosedOnScopeExit ==
    event.act = "aexit_return" =>
        /\ handle = NoSession
        /\ exiting[event.task] # NoSession => sessions[exiting[event.task]] = "closed"

\* a scope was left after a call inside it failed: its session is closed
C2_Witness ==
    /\ event.act = "aexit_return"
    /\ exiting[Main] # NoSession
    /\ lastUsed = exiting[Main]
    /\ outcome[Main] = "HTTPStatusError"
    /\ sessions[exiting[Main]] = "closed"

\* C3: when close() returns the handle is empty and the session it found
\* there is closed; close() on a client that holds no session changes
\* nothing; an API call sends on an open session, never on a closed one,
\* and when the handle is empty the session it sends on is a new one.
C3_CloseThenRecreate ==
    [][LET t == event'.task
       IN  /\ event'.act = "close_return" =>
                 /\ handle' = NoSession
                 /\ closing'[t] # NoSession => sessions'[closing'[t]] = "closed"
           /\ (event'.act \in {"close_await", "close_return"} /\ pc[t] = "idle"
                 /\ handle = NoSession) =>
                 /\ event'.act = "close_return"
                 /\ handle' = NoSession
                 /\ sessions' = sessions
           /\ event'.act = "call" =>
                 /\ sessions'[client'[t]] = "open"
                 /\ outcome'[t] # "RuntimeError"
                 /\ handle = NoSession =>
                       /\ sessions[client'[t]] = "unborn"
                       /\ handle' = client'[t]]_vars

\* outside any scope: a call made a session, close() closed it, and the
\* next call is in flight on a second, open session
C3_Witness ==
    /\ event.act = "call"
    /\ pc[Main] = "awaiting"
    /\ scope = 0
    /\ exiting[Main] = NoSession
    /\ closing[Main] # NoSession
    /\ sessions[closing[Main]] = "closed"
    /\ client[Main] # closing[Main]
    /\ handle = client[Main]
    /\ sessions[client[Main]] = "open"

\* C4: construction creates no session; an API call on an empty handle
\* creates exactly one; an API call never changes a non-empty handle; and
\* every later API call uses the session of the call before it as long as
\* no close() or scope exit has happened in between.
C4_LazyAndReused ==
    /\ Created = 0
    /\ [][event'.act = "call" =>
            /\ handle # NoSession => (handle' = handle /\ sessions' = sessions)
            /\ handle = NoSession => (Created' = Created + 1 /\ handle' # NoSession)
            /\ (lastUsed # NoSession /\ ~disposedSince) => client'[event'.task] = lastUsed]_vars

\* C10: API calls that run concurrently on one client, with no close() and
\* no scope, create at most one session in total and all send on it.
C10_ConcurrentCallsShareSession ==
    /\ Created <= 1
    /\ \A t \in Tasks : client[t] # NoSession =>
          /\ client[t] = handle
          /\ sessions[client[t]] = "open"
          /\ \A u \in Tasks : client[u] # NoSession => client[u] = client[t]

\* every task started on the empty handle and all are suspended in a call
C10_Witness ==
    /\ \A t \in Tasks : pc[t] = "awaiting" /\ client[t] = handle
    /\ Created = 1

---------------------------------------------------------------------------
(* One call, request and response: C5, C6, C7, C8, C9 (SpecCall)           *)

\* the latest call of task t received a response
Answered(t) == pc[t] = "idle" /\ response[t].status # 0
Success(t) == 200 <= response[t].status /\ response[t].status <= 299

\* C5: for each of the seven operations, a response whose status is
\* outside 200-299 makes the call fail with an HTTP-status error and no
\* record is returned, whatever the body holds (a body that is no JSON
\* included: the status is looked at before the body is parsed).
C5_NonSuccessRaises ==
    \A t \in Tasks :
        (Answered(t) /\ ~Success(t)) =>
            /\ op[t] \in Ops
            /\ outcome[t] = "HTTPStatusError"
            /\ result[t] = NoResult

\* a redirect status over a body that would have parsed into a Skill
C5_Witness ==
    /\ Answered(Main)
    /\ op[Main] = "get_skill"
    /\ response[Main].status = 300
    /\ response[Main].body.t = "dict"
    /\ {"name", "source"} \subseteq DOMAIN response[Main].body.v
    /\ DOMAIN response[Main].body.v = {"name", "source"}
    /\ outcome[Main] = "HTTPStatusError"

ListOps == {"search", "search_with_filters", "trending"}

\* the JSON type of every field of element e is the declared one
Typed(e) ==
    /\ \A f \in {"name", "source"} \cap DOMAIN e : e[f].t = "str"
    /\ \A f \in {"description", "repo", "category", "content"} \cap DOMAIN e :
          e[f].t \in {"none", "str"}
    /\ \A f \in {"stars", "installs"} \cap DOMAIN e : e[f].t \in {"none", "int"}
    /\ \A f \in {"tags"} \cap DOMAIN e :
          \/ e[f].t = "none"
          \/ e[f].t = "list" /\ \A i \in 1..Len(e[f].v) : e[f].v[i].t = "str"

HasRequired(e) == {"name", "source"} \subseteq DOMAIN e

\* an integer field holds a JSON string that is a numeral
NumeralInIntField(e) ==
    \E f \in {"stars", "installs"} \cap DOMAIN e :
        e[f].t = "str" /\ e[f].v \in {"5", "42"}

\* a field of element e holds a value that no conversion to the declared
\* type accepts
Unconvertible(e) == ~Typed(e) /\ ~NumeralInIntField(e)

\* task t called a list operation and got a 2xx answer whose body has a
\* skills list; the caller has not touched the result
ListAnswered(t) ==
    /\ Answered(t)
    /\ Success(t)
    /\ op[t] \in ListOps
    /\ assigns[t] = 0
    /\ response[t].body.t = "dict"
    /\ "skills" \in DOMAIN response[t].body.v

Items(t) == response[t].body.v["skills"].v

\* the Skill records of the value returned to task t
ReturnedSkills(t) == IF op[t] = "trending" THEN result[t].v ELSE result[t].v["skills"].v

SameLengthAndOrder(t) ==
    /\ Len(ReturnedSkills(t)) = Len(Items(t))
    /\ \A i \in 1..Len(Items(t)) :
          /\ ReturnedSkills(t)[i].t = "Skill"
          /\ ReturnedSkills(t)[i].v["name"] = Items(t)[i].v["name"]
          /\ ReturnedSkills(t)[i].v["source"] = Items(t)[i].v["source"]

NonEmpty(x) == x.t # "none" /\ Len(x.v) > 0
FilterArgs == {"tags", "category", "source"}

\* C7: the body of search_with_filters' POST /search has exactly the keys
\* query, limit, include_content, with the arguments' values, plus filters
\* if and only if one of tags, category, source is non-empty; filters then
\* has exactly the keys of the non-empty ones, with their values unchanged.
C7_FiltersBody ==
    \A t \in Tasks :
        (pc[t] = "awaiting" /\ op[t] = "search_with_filters") =>
            LET a == args[t]
                body == request[t].json.v
                given == {k \in FilterArgs : NonEmpty(a[k])}
            IN  /\ request[t].method = "POST"
                /\ request[t].path = SearchPath
                /\ request[t].json.t = "dict"
                /\ DOMAIN body \ {"filters"} = {"query", "limit", "include_content"}
                /\ \A k \in {"query", "limit", "include_content"} : body[k] = a[k]
                /\ "filters" \in DOMAIN body <=> given # {}
                /\ "filters" \in DOMAIN body =>
                      /\ body["filters"].t = "dict"
                      /\ DOMAIN body["filters"].v = given
                      /\ \A k \in given : body["filters"].v[k] = a[k]

\* search_with_filters("auth", tags=["nextjs"]) is in flight
C7_Witness ==
    /\ pc[Main] = "awaiting"
    /\ op[Main] = "search_with_filters"
    /\ args[Main].tags = PyList(<<PyStr(NextJs)>>)
    /\ args[Main].category.t = "none"
    /\ args[Main].source.t = "none"
    /\ DOMAIN request[Main].json.v["filters"].v = {"tags"}

\* the segments of a path: the pieces between its "/" characters
RECURSIVE Segments(_, _)
Segments(p, cur) ==
    IF Len(p) = 0 THEN <<cur>>
    ELSE IF Head(p) = "/" THEN <<cur>> \o Segments(Tail(p), <<>>)
    ELSE Segments(Tail(p), Append(cur, Head(p)))

\* percent-decoding of a segment
RECURSIVE Unquote(_)
Unquote(p) ==
    IF Len(p) = 0 THEN <<>>
    ELSE IF Head(p) = "%" /\ Len(p) >= 3
      THEN LET code == SubSeq(p, 2, 3)
               c == CASE code = <<"2", "F">> -> "/"
                      [] code = <<"2", "5">> -> "%"
                      [] code = <<"2", "0">> -> " "
                      [] code = <<"3", "F">> -> "?"
                      [] code = <<"2", "3">> -> "#"
                      [] OTHER -> "!"
           IN  <<c>> \o Unquote(SubSeq(p, 4, Len(p)))
      ELSE <<Head(p)>> \o Unquote(Tail(p))

ExamplePath ==
    <<"/", "s", "k", "i", "l", "l", "s", "/", "o", "w", "n", "e", "r", "%", "2", "F",
      "r", "e", "p", "o", "/", "r", "e", "a", "c", "t", "-", "p", "e", "r", "f">>

\* C8: get_skill(source, skill_id) requests /skills/{source}/{skill_id}:
\* three segments whatever the arguments, the second and third decoding to
\* source and skill_id, no "/" of the arguments left as it is; for
\* ("owner/repo", "react-perf") the path is /skills/owner%2Frepo/react-perf;
\* and the Skill returned is the one parsed from the body.
C8_GetSkillPath ==
    \A t \in Tasks :
        /\ (pc[t] = "awaiting" /\ op[t] = "get_skill") =>
              LET segs == Segments(request[t].path, <<>>)
              IN  /\ request[t].method = "GET"
                  /\ Len(segs) = 4
                  /\ segs[1] = <<>>
                  /\ segs[2] = <<"s", "k", "i", "l", "l", "s">>
                  /\ Unquote(segs[3]) = args[t].source.v
                  /\ Unquote(segs[4]) = args[t].skill_id.v
                  /\ (args[t].source.v = OwnerRepo /\ args[t].skill_id.v = ReactPerf) =>
                        request[t].path = ExamplePath
        /\ (Answered(t) /\ op[t] = "get_skill" /\ outcome[t] = "ok" /\ assigns[t] = 0) =>
              /\ Success(t)
              /\ result[t].t = "Skill"
              /\ result[t].v["name"] = response[t].body.v["name"]
              /\ result[t].v["source"] = response[t].body.v["source"]

\* get_skill("owner/repo", "react-perf") is in flight
C8_Witness ==
    /\ pc[Main] = "awaiting"
    /\ op[Main] = "get_skill"
    /\ args[Main].source.v = OwnerRepo
    /\ args[Main].skill_id.v = ReactPerf
    /\ request[Main].path = ExamplePath

\* C9: once a record has been constructed and returned by an operation, no
\* later step, an assignment by the caller included, changes a field of it.
C9_RecordsImmutable ==
    [][\A t \in Tasks :
          (result[t].t # "noresult" /\ result'[t].t # "noresult") => result'[t] = result[t]]_vars

====
